---- MODULE Spec2Model ----
(***************************************************************************)
(* State-machine model of the App component of src/index.tsx (the live-    *)
(* capture version, lines 226-555): the React state of the component, the  *)
(* persistent storage entry 'bulldogHistory', the in-flight asynchronous   *)
(* handlers (handleAnalyze, handleStartCamera, the toBlob callback of      *)
(* handleCapturePhoto) with the values their closures captured, and the    *)
(* camera streams the browser has handed out.                              *)
(***************************************************************************)
EXTENDS Integers, Sequences, FiniteSets, TLC

\* ------------------------------------------------------------------ bounds
MaxAnalyses == 2     \* inference requests issued in one session
MaxStreams == 2      \* getUserMedia requests made in one session

\* ------------------------------------------------------- program constants
HistoryCap == 10     \* .slice(0, 10)

VARIABLES
  phase,        \* "init" | "running" | "crashed" | "unmounted"
  storage,      \* localStorage entry 'bulldogHistory'
  history, file, previewUrl, promptText, loading, error, result,
  mode, isCameraOn, stream,
  videoSrc,     \* videoRef.current.srcObject (NoStream when no element or unset)
  calls,        \* in-flight handleAnalyze invocations (closure + position)
  requests,     \* generateContent requests issued so far
  appended,     \* history items created so far (one clock tick each)
  camPending,   \* getUserMedia requests not yet answered
  granted,      \* streams acquired by the browser, continuation not yet run
  nextStream,   \* number of streams handed out so far
  stopCalls,    \* per stream: how many times track.stop() ran on its tracks
  captures,     \* toBlob callbacks not yet delivered (TRUE = a blob was produced)
  ignoredClick  \* the last user event was a click on the disabled analyze button

vars == <<phase, storage, history, file, previewUrl, promptText, loading, error,
          result, mode, isCameraOn, stream, videoSrc, calls, requests, appended,
          camPending, granted, nextStream, stopCalls, captures, ignoredClick>>

uiVars == <<history, file, previewUrl, promptText, loading, error, result, mode>>
camVars == <<isCameraOn, stream, videoSrc, camPending, granted, nextStream,
             stopCalls, captures>>

\* ------------------------------------------------------------------ values
Undefined == "undefined"                 \* reading a property an object lacks
ResultFields == {"behavior", "explanation", "tip"}
ItemFields == ResultFields \cup {"id", "timestamp", "file", "prompt"}

NoFile == [name |-> <<>>, type |-> ""]   \* file === null
DogJpg == [name |-> <<"dog", ".jpg">>, type |-> "image/jpeg"]
BarkMp3 == [name |-> <<"bark", ".mp3">>, type |-> "audio/mpeg"]
Files == {DogJpg, BarkMp3}
Prompts == {"", "whining"}

NoUrl == [scheme |-> "none", of |-> NoFile]          \* previewUrl === null
createObjectURL(f) == [scheme |-> "blob", of |-> f]  \* URL.createObjectURL

NoError == "null"
NoMediaMsg == "Please upload or capture a media file first."
AnalyzeFailMsg == "Failed to analyze the media. Please try again."
CameraMsg == "Could not access the camera. Please check permissions and try again."

NoResult == [null |-> TRUE]              \* result === null
NoStream == 0                            \* stream === null

Min(a, b) == IF a < b THEN a ELSE b
Take(s, n) == SubSeq(s, 1, Min(n, Len(s)))           \* Array.prototype.slice(0, n)

\* ------------------------------------------------------------- JSON texts
\* A string is modelled by what JSON.parse makes of it: a text that does not
\* parse (kind "raw"), or the text of an array, of an object that is no
\* array, or of null.  The text of an object lists only the properties that
\* JSON.stringify writes (those whose value is not undefined).
RawText(s) == [kind |-> "raw", raw |-> s, obj |-> <<>>, arr |-> <<>>]
ObjectText(o) == [kind |-> "object", raw |-> "", obj |-> o, arr |-> <<>>]
ArrayText(a) == [kind |-> "array", raw |-> "", obj |-> <<>>, arr |-> a]
NullText == [kind |-> "null", raw |-> "", obj |-> <<>>, arr |-> <<>>]

\* JSON.stringify of one HistoryItem: undefined-valued properties are dropped
StringifyItem(it) ==
  [k \in {f \in ItemFields : f \notin ResultFields \/ it[f] # Undefined} |-> it[k]]
\* JSON.stringify(updatedHistory)
Stringify(items) == ArrayText([i \in 1..Len(items) |-> StringifyItem(items[i])])

\* property reads on a parsed object: a missing key reads as undefined
ParseItem(o) == [k \in ItemFields |-> IF k \in DOMAIN o THEN o[k] ELSE Undefined]
ParseResult(o) == [k \in ResultFields |-> IF k \in DOMAIN o THEN o[k] ELSE Undefined]

\* JSON.parse(text): throws on a text that is not JSON
Parses(t) == t.kind # "raw"
IsArrayText(t) == t.kind = "array"
ParseArray(t) == [i \in 1..Len(t.arr) |-> ParseItem(t.arr[i])]

\* ------------------------------------------------- the inference responses
GoodText == ObjectText([behavior |-> "Comfort Seeking", explanation |-> "e", tip |-> "t"])
NoTipText == ObjectText([behavior |-> "Comfort Seeking", explanation |-> "e"])
BadText == RawText("Sorry, I cannot")
ResponseTexts == {GoodText, NoTipText, BadText, NullText}

\* analysisResult = JSON.parse(response.text), and {...analysisResult}
ParsedResponse(t) == IF t.kind = "null" THEN NoResult ELSE ParseResult(t.obj)
SpreadResult(t) ==
  IF t.kind = "null" THEN [k \in ResultFields |-> Undefined] ELSE ParseResult(t.obj)

\* ------------------------------------------- snapshots of earlier sessions
StoredItem(n) ==
  [behavior |-> "Zoomies", explanation |-> "e", tip |-> "t", id |-> n,
   timestamp |-> <<"local", n>>,
   file |-> [dataUrl |-> createObjectURL(DogJpg), type |-> DogJpg.type],
   prompt |-> ""]
StoredList(n) == [i \in 1..n |-> StoredItem(n + 1 - i)]     \* newest first
NoEntry == [kind |-> "absent", raw |-> "", obj |-> <<>>, arr |-> <<>>]              \* getItem returns null
EmptyText == RawText("")
StoredValues ==
  { NoEntry, EmptyText, RawText("{bad"), ObjectText([a |-> "1"]),
    Stringify(StoredList(HistoryCap)), Stringify(StoredList(HistoryCap + 1)) }

\* new Date() / Date.now(): later than every stored item, one tick per item made
Now == HistoryCap + 2 + appended

Init ==
  /\ phase = "init"
  /\ storage \in StoredValues
  /\ history = <<>>
  /\ file = NoFile
  /\ previewUrl = NoUrl
  /\ promptText = ""
  /\ loading = FALSE
  /\ error = NoError
  /\ result = NoResult
  /\ mode = "upload"
  /\ isCameraOn = FALSE
  /\ stream = NoStream
  /\ videoSrc = NoStream
  /\ calls = <<>>
  /\ requests = 0
  /\ appended = 0
  /\ camPending = 0
  /\ granted = {}
  /\ nextStream = 0
  /\ stopCalls = [s \in 1..MaxStreams |-> 0]
  /\ captures = <<>>
  /\ ignoredClick = FALSE

Mounted == phase = "running"

\* --------------------------------------------------- startup (load effect)
\* useEffect(..., []): getItem, if (storedHistory) setHistory(JSON.parse(..)),
\* parse errors caught.  A parsed value that is no array makes the render of
\* the history panel throw (history.map is not a function): with no error
\* boundary React unmounts the root.
LoadThrows(t) == t.kind = "raw" /\ t.raw # ""
LoadSkips(t) == t.kind = "absent" \/ (t.kind = "raw" /\ t.raw = "")
RenderThrows(t) == Parses(t) /\ t.kind # "absent" /\ ~IsArrayText(t)

Startup ==
  /\ phase = "init"
  /\ IF LoadSkips(storage) \/ LoadThrows(storage)
       THEN /\ history' = history
            /\ phase' = "running"
       ELSE IF RenderThrows(storage)
         THEN /\ history' = history
              /\ phase' = "crashed"
         ELSE /\ history' = ParseArray(storage)
              /\ phase' = "running"
  /\ UNCHANGED <<storage, file, previewUrl, promptText, loading, error, result, mode,
                 calls, requests, appended>>
  /\ ignoredClick' = FALSE
  /\ UNCHANGED camVars

\* ------------------------------------------------------------ handleAnalyze
RemoveAt(s, i) == [j \in 1..(Len(s) - 1) |-> IF j < i THEN s[j] ELSE s[j + 1]]
Reading == {i \in DOMAIN calls : calls[i].pc = "reading"}
Requesting == {i \in DOMAIN calls : calls[i].pc = "requesting"}

\* faulty variant: the check for missing media is lost
NoMediaNever == FALSE
\* !file
NoMedia == file = NoFile

\* faulty variant: the button stays enabled while a request is pending
AnalyzeDisabledIgnoresLoading == NoMedia
\* the analyze button: disabled: loading || !file
AnalyzeDisabled == loading \/ NoMedia

\* handleAnalyze up to its first await.  The closure keeps the file, previewUrl,
\* promptText and history of the render that created the handler; storage0 is
\* not program state: it records the snapshot at the time of the call.
NoRequest == [mimeType |-> "", context |-> ""]      \* nothing sent yet
OwnerContext(p) == IF p = "" THEN "None" ELSE p     \* promptText || 'None'

handleAnalyze ==
  IF NoMedia
    THEN /\ error' = NoMediaMsg
         /\ UNCHANGED <<loading, result, calls>>
    ELSE /\ loading' = TRUE
         /\ error' = NoError
         /\ result' = NoResult
         /\ calls' = Append(calls, [pc |-> "reading", file |-> file,
                                    previewUrl |-> previewUrl, promptText |-> promptText,
                                    history |-> history, storage0 |-> storage,
                                    sent |-> NoRequest])

\* a click on the analyze button; a disabled button dispatches no event
ClickAnalyze ==
  /\ Mounted
  /\ AnalyzeDisabled \/ requests + Cardinality(Reading) < MaxAnalyses
  /\ IF AnalyzeDisabled
       THEN /\ ignoredClick' = TRUE
            /\ UNCHANGED <<loading, error, result, calls>>
       ELSE /\ ignoredClick' = FALSE
            /\ handleAnalyze
  /\ UNCHANGED <<phase, storage, history, file, previewUrl, promptText, mode,
                 requests, appended>>
  /\ UNCHANGED camVars

\* faulty variant: the finally block is lost: loading stays set
CatchLeavesLoading(i) ==
  /\ calls' = RemoveAt(calls, i)
  /\ error' = IF Mounted THEN AnalyzeFailMsg ELSE error
  /\ UNCHANGED loading
\* catch (e) { setError(...) } finally { setLoading(false) }; state setters of an
\* unmounted component do nothing
Catch(i) ==
  /\ calls' = RemoveAt(calls, i)
  /\ IF Mounted
       THEN error' = AnalyzeFailMsg /\ loading' = FALSE
       ELSE UNCHANGED <<error, loading>>

\* fileToBase64 resolves: the request is issued
ReadDone(i) ==
  /\ i \in Reading
  /\ calls' = [calls EXCEPT ![i].pc = "requesting",
                           ![i].sent = [mimeType |-> calls[i].file.type,
                                        context |-> OwnerContext(calls[i].promptText)]]
  /\ requests' = requests + 1
  /\ ignoredClick' = FALSE
  /\ UNCHANGED <<phase, storage, uiVars, appended>>
  /\ UNCHANGED camVars

\* fileToBase64 rejects (reader.onerror)
ReadFails(i) ==
  /\ i \in Reading
  /\ Catch(i)
  /\ UNCHANGED <<phase, storage, history, file, previewUrl, promptText, result, mode,
                 requests, appended>>
  /\ ignoredClick' = FALSE
  /\ UNCHANGED camVars

\* generateContent rejects
RequestFails(i) ==
  /\ i \in Requesting
  /\ Catch(i)
  /\ UNCHANGED <<phase, storage, history, file, previewUrl, promptText, result, mode,
                 requests, appended>>
  /\ ignoredClick' = FALSE
  /\ UNCHANGED camVars

\* the HistoryItem built from the response text t by call c
\* faulty variant: the item is built from the media and the text selected when
\* the response arrives
NewHistoryItemCurrent(c, t) ==
  [k \in ItemFields |->
     CASE k \in ResultFields -> SpreadResult(t)[k]
       [] k = "id" -> Now
       [] k = "timestamp" -> <<"local", Now>>
       [] k = "file" -> [dataUrl |-> previewUrl, type |-> file.type]
       [] k = "prompt" -> promptText]
\* newHistoryItem: the handler's closure holds the file, the preview URL and the
\* text of the render in which analyze was triggered
NewHistoryItem(c, t) ==
  [k \in ItemFields |->
     CASE k \in ResultFields -> SpreadResult(t)[k]
       [] k = "id" -> Now
       [] k = "timestamp" -> <<"local", Now>>
       [] k = "file" -> [dataUrl |-> c.previewUrl, type |-> c.file.type]
       [] k = "prompt" -> c.promptText]
\* faulty variant: the new item is put last instead of first
UpdatedHistoryAppends(c, t) == Take(c.history \o <<NewHistoryItem(c, t)>>, HistoryCap)
\* [newHistoryItem, ...history].slice(0, 10)
UpdatedHistory(c, t) == Take(<<NewHistoryItem(c, t)>> \o c.history, HistoryCap)

\* generateContent resolves with text t; writeOk: localStorage.setItem does not
\* throw (it throws when the quota is exceeded or storage is unavailable)
ResponseArrives(i, t, writeOk) ==
  /\ i \in Requesting
  /\ IF ~Parses(t)
       THEN /\ Catch(i)
            /\ UNCHANGED <<storage, history, result, appended>>
       ELSE /\ appended' = appended + 1
            /\ storage' = IF writeOk THEN Stringify(UpdatedHistory(calls[i], t)) ELSE storage
            /\ IF Mounted
                 THEN /\ result' = ParsedResponse(t)
                      /\ history' = UpdatedHistory(calls[i], t)
                      /\ loading' = FALSE
                      /\ error' = IF writeOk THEN error ELSE AnalyzeFailMsg
                 ELSE UNCHANGED <<result, history, loading, error>>
            /\ calls' = RemoveAt(calls, i)
  /\ ignoredClick' = FALSE
  /\ UNCHANGED <<phase, file, previewUrl, promptText, mode, requests>>
  /\ UNCHANGED camVars

\* ------------------------------------------------------------------ camera
\* stream.getTracks().forEach(track => track.stop())
StopTracks(sc, s) == IF s = NoStream THEN sc ELSE [sc EXCEPT ![s] = @ + 1]

\* useEffect(() => () => { if (stream) stop its tracks }, [stream]): the cleanup
\* of the render that held `old` runs when a render with another stream commits
EffectCleanup(sc, old, new) == IF old # new THEN StopTracks(sc, old) ELSE sc

\* handleStopCamera, and the commit that follows it
handleStopCamera ==
  /\ stopCalls' = EffectCleanup(StopTracks(stopCalls, stream), stream, NoStream)
  /\ isCameraOn' = FALSE
  /\ stream' = NoStream
  /\ videoSrc' = NoStream

\* the <video> element exists while mode === 'live' && isCameraOn
VideoMounted == mode = "live" /\ isCameraOn

\* handleModeChange(newMode); both mode buttons are always rendered
handleModeChange(newMode) ==
  /\ Mounted
  /\ mode' = newMode
  /\ IF newMode = "upload"
       THEN handleStopCamera
       ELSE /\ UNCHANGED <<stopCalls, isCameraOn, stream>>
            /\ videoSrc' = IF mode = "live" THEN videoSrc ELSE NoStream
  /\ ignoredClick' = FALSE
  /\ UNCHANGED <<phase, storage, history, file, previewUrl, promptText, loading, error,
                 result, calls, requests, appended, camPending, granted, nextStream,
                 captures>>

\* faulty variant: the isCameraOn guard is lost
handleStartCameraUnguarded ==
  /\ Mounted
  /\ mode = "live"
  /\ nextStream + camPending < MaxStreams
  /\ camPending' = camPending + 1
  /\ ignoredClick' = FALSE
  /\ UNCHANGED <<phase, storage, uiVars, calls, requests, appended, isCameraOn, stream,
                 videoSrc, granted, nextStream, stopCalls, captures>>

\* handleStartCamera up to its await (if (isCameraOn) return: a start while the
\* camera is on changes nothing); the Start Camera button is rendered while
\* mode === 'live' && !isCameraOn
handleStartCamera ==
  /\ Mounted
  /\ mode = "live"
  /\ ~isCameraOn
  /\ nextStream + camPending < MaxStreams
  /\ camPending' = camPending + 1
  /\ ignoredClick' = FALSE
  /\ UNCHANGED <<phase, storage, uiVars, calls, requests, appended, isCameraOn, stream,
                 videoSrc, granted, nextStream, stopCalls, captures>>

\* the browser turns the camera on for one pending getUserMedia request
CameraGranted ==
  /\ camPending > 0
  /\ camPending' = camPending - 1
  /\ nextStream' = nextStream + 1
  /\ granted' = granted \cup {nextStream + 1}
  /\ ignoredClick' = FALSE
  /\ UNCHANGED <<phase, storage, uiVars, calls, requests, appended, isCameraOn, stream,
                 videoSrc, stopCalls, captures>>

\* getUserMedia rejects: catch (err) { setError(...) }
CameraDenied ==
  /\ camPending > 0
  /\ camPending' = camPending - 1
  /\ error' = IF Mounted THEN CameraMsg ELSE error
  /\ ignoredClick' = FALSE
  /\ UNCHANGED <<phase, storage, history, file, previewUrl, promptText, loading, result,
                 mode, calls, requests, appended, isCameraOn, stream, videoSrc, granted,
                 nextStream, stopCalls, captures>>

\* handleStartCamera after its await, with the acquired stream s
StartCameraResumes(s) ==
  /\ s \in granted
  /\ granted' = granted \ {s}
  /\ IF Mounted
       THEN /\ stream' = s
            /\ stopCalls' = EffectCleanup(stopCalls, stream, s)
            /\ videoSrc' = IF VideoMounted THEN s ELSE NoStream
            /\ isCameraOn' = TRUE
            /\ error' = NoError
       ELSE UNCHANGED <<stream, stopCalls, videoSrc, isCameraOn, error>>
  /\ ignoredClick' = FALSE
  /\ UNCHANGED <<phase, storage, history, file, previewUrl, promptText, loading, result,
                 mode, calls, requests, appended, camPending, nextStream, captures>>

\* handleCapturePhoto; the Capture Photo button is rendered while the camera is
\* on in live mode.  blob: whether toBlob will produce a blob (it produces null
\* for a canvas of width 0, which is what a video without a source gives)
handleCapturePhoto(blob) ==
  /\ Mounted
  /\ VideoMounted
  /\ videoSrc = NoStream => ~blob
  /\ captures' = Append(captures, blob)
  /\ handleStopCamera
  /\ ignoredClick' = FALSE
  /\ UNCHANGED <<phase, storage, uiVars, calls, requests, appended, camPending, granted,
                 nextStream>>

CapturedFile == [name |-> <<"capture-", Now, ".jpg">>, type |-> "image/jpeg"]

\* the toBlob callback
CaptureDelivered ==
  /\ captures # <<>>
  /\ captures' = Tail(captures)
  /\ IF Head(captures) /\ Mounted
       THEN /\ file' = CapturedFile
            /\ previewUrl' = createObjectURL(CapturedFile)
            /\ result' = NoResult
            /\ error' = NoError
            /\ mode' = "upload"
            /\ videoSrc' = NoStream
       ELSE UNCHANGED <<file, previewUrl, result, error, mode, videoSrc>>
  /\ ignoredClick' = FALSE
  /\ UNCHANGED <<phase, storage, history, promptText, loading, calls, requests, appended,
                 isCameraOn, stream, camPending, granted, nextStream, stopCalls>>

\* faulty variant: a file selection keeps the previous result and error
handleFileChangeKeepsResult(f) ==
  /\ Mounted
  /\ mode = "upload"
  /\ handleStopCamera
  /\ IF f # NoFile
       THEN /\ file' = f
            /\ previewUrl' = createObjectURL(f)
       ELSE UNCHANGED <<file, previewUrl>>
  /\ ignoredClick' = FALSE
  /\ UNCHANGED <<phase, storage, history, promptText, loading, result, error, mode, calls,
                 requests, appended, camPending, granted, nextStream, captures>>

\* handleFileChange; the file input is rendered while mode === 'upload'.
\* f = NoFile: the change event carries no file
handleFileChange(f) ==
  /\ Mounted
  /\ mode = "upload"
  /\ handleStopCamera
  /\ IF f # NoFile
       THEN /\ file' = f
            /\ previewUrl' = createObjectURL(f)
            /\ result' = NoResult
            /\ error' = NoError
       ELSE UNCHANGED <<file, previewUrl, result, error>>
  /\ ignoredClick' = FALSE
  /\ UNCHANGED <<phase, storage, history, promptText, loading, mode, calls, requests,
                 appended, camPending, granted, nextStream, captures>>

\* the textarea's onChange
setPromptText(t) ==
  /\ Mounted
  /\ promptText' = t
  /\ ignoredClick' = FALSE
  /\ UNCHANGED <<phase, storage, history, file, previewUrl, loading, error, result, mode,
                 calls, requests, appended>>
  /\ UNCHANGED camVars

\* the component unmounts: the stream effect's cleanup runs
Unmount ==
  /\ Mounted
  /\ phase' = "unmounted"
  /\ stopCalls' = StopTracks(stopCalls, stream)
  /\ ignoredClick' = FALSE
  /\ UNCHANGED <<storage, uiVars, calls, requests, appended, isCameraOn, stream, videoSrc,
                 camPending, granted, nextStream, captures>>

Next ==
  \/ Startup
  \/ ClickAnalyze
  \/ \E i \in DOMAIN calls : ReadDone(i)
  \/ \E i \in DOMAIN calls : ReadFails(i)
  \/ \E i \in DOMAIN calls : RequestFails(i)
  \/ \E i \in DOMAIN calls, t \in ResponseTexts, w \in BOOLEAN : ResponseArrives(i, t, w)
  \/ \E f \in Files \cup {NoFile} : handleFileChange(f)
  \/ \E t \in Prompts : setPromptText(t)
  \/ \E m \in {"upload", "live"} : handleModeChange(m)
  \/ handleStartCamera
  \/ CameraGranted
  \/ CameraDenied
  \/ \E s \in granted : StartCameraResumes(s)
  \/ \E b \in BOOLEAN : handleCapturePhoto(b)
  \/ CaptureDelivered
  \/ Unmount

Spec == Init /\ [][Next]_vars

\* The upload flow alone (the camera is never asked for, the mode stays
\* 'upload'): startup, media selection, context edits, analyses, unmount.
NextAnalysis ==
  \/ Startup
  \/ ClickAnalyze
  \/ \E i \in DOMAIN calls : ReadDone(i)
  \/ \E i \in DOMAIN calls : ReadFails(i)
  \/ \E i \in DOMAIN calls : RequestFails(i)
  \/ \E i \in DOMAIN calls, t \in ResponseTexts, w \in BOOLEAN : ResponseArrives(i, t, w)
  \/ \E f \in Files \cup {NoFile} : handleFileChange(f)
  \/ \E t \in Prompts : setPromptText(t)
  \/ Unmount

SpecAnalysis == Init /\ [][NextAnalysis]_vars

\* The camera lifecycle alone (no analysis is triggered): startup, mode
\* switches, camera start, capture, file selection, unmount.
NextCamera ==
  \/ Startup
  \/ \E f \in Files \cup {NoFile} : handleFileChange(f)
  \/ \E m \in {"upload", "live"} : handleModeChange(m)
  \/ handleStartCamera
  \/ CameraGranted
  \/ CameraDenied
  \/ \E s \in granted : StartCameraResumes(s)
  \/ \E b \in BOOLEAN : handleCapturePhoto(b)
  \/ CaptureDelivered
  \/ Unmount

SpecCamera == Init /\ [][NextCamera]_vars

\* A session that uses both flows: a picture is picked or captured and
\* analysed; the context text is left alone, permission is granted, the read
\* succeeds and the inference service answers with a well-formed result or
\* fails.
NextSession ==
  \/ Startup
  \/ ClickAnalyze
  \/ \E i \in DOMAIN calls : ReadDone(i)
  \/ \E i \in DOMAIN calls : RequestFails(i)
  \/ \E i \in DOMAIN calls, w \in BOOLEAN : ResponseArrives(i, GoodText, w)
  \/ handleFileChange(DogJpg)
  \/ \E m \in {"upload", "live"} : handleModeChange(m)
  \/ handleStartCamera
  \/ CameraGranted
  \/ \E s \in granted : StartCameraResumes(s)
  \/ \E b \in BOOLEAN : handleCapturePhoto(b)
  \/ CaptureDelivered

SpecSession == Init /\ [][NextSession]_vars
\* ==================================================================== claims

\* C1: every analysis that produces a history item, started with history list
\* H, leaves the history equal to the new item followed by the items of H in
\* their previous order, cut to the first 10: the length is min(10, |H| + 1),
\* the new item (fresh id, media type and context of the call) is at index 0,
\* and the items that would fall beyond index 9 are dropped.  H is also the
\* list held right before the handler finishes.
C1_NewestFirstCapped ==
  [][\A i \in DOMAIN calls, t \in ResponseTexts, w \in BOOLEAN :
       (Mounted /\ Parses(t) /\ ResponseArrives(i, t, w)) =>
         LET H == calls[i].history IN
           /\ history = H
           /\ Len(history') = Min(HistoryCap, Len(H) + 1)
           /\ history'[1].id = Now
           /\ \A k \in 1..Len(H) : H[k].id # Now
           /\ history'[1].file.type = calls[i].file.type
           /\ history'[1].prompt = calls[i].promptText
           /\ \A k \in 2..Len(history') : history'[k] = H[k - 1]
           /\ Len(H) >= HistoryCap =>
                 \A k \in HistoryCap..Len(H) :
                   \A j \in 1..Len(history') : history'[j].id # H[k].id]_vars

\* C1 witness: a full history whose newest item was made in this session and
\* whose oldest stored item has been evicted
C1_Witness ==
  /\ Mounted
  /\ appended > 0
  /\ Len(history) = HistoryCap
  /\ history[1].id > HistoryCap + 1
  /\ \A k \in 1..Len(history) : history[k].id # 1

C3_SnapshotMirrorsHistory ==
  [][(Mounted /\ history' # history) =>
       /\ IsArrayText(storage')
       /\ ParseArray(storage') = history']_vars

\* C4: while an inference call is pending a second analyze trigger is a no-op
\* (nothing but the record of the ignored click changes), at most one call is
\* in flight at any time and it keeps loading set, and the number of items
\* appended never exceeds the number of completed requests.
C4_SingleFlight ==
  /\ [](/\ Len(calls) <= 1
        /\ (Mounted /\ calls # <<>>) => loading
        /\ appended <= requests - Cardinality(Requesting))
  /\ [][(calls # <<>> /\ ClickAnalyze) =>
          /\ ignoredClick'
          /\ UNCHANGED <<phase, storage, uiVars, calls, requests, appended>>
          /\ UNCHANGED camVars]_vars

\* C4 witness: a request is in flight and the last event was a click on the
\* analyze button, which was ignored
C4_Witness ==
  /\ Mounted
  /\ ignoredClick
  /\ loading
  /\ Len(calls) = 1
  /\ calls[1].pc = "requesting"
  /\ requests = 1

\* a response object that lacks one of behavior, explanation, tip
MissingField(t) == t.kind = "object" /\ \E k \in ResultFields : k \notin DOMAIN t.obj

\* C5: a response whose parsed JSON is missing any of behavior, explanation or
\* tip is treated as a failure: result stays unset, the error message is
\* shown, the history list and the persisted snapshot are unchanged.
C5_MissingFieldIsFailure ==
  [][\A i \in DOMAIN calls, t \in ResponseTexts, w \in BOOLEAN :
       (Mounted /\ MissingField(t) /\ ResponseArrives(i, t, w)) =>
         /\ result' = NoResult
         /\ error' = AnalyzeFailMsg
         /\ history' = history
         /\ storage' = storage]_vars

\* the handler of call i ends in its catch block: the blob read failed, the
\* request failed, or the response text did not parse
AnalysisFails(i) ==
  \/ ReadFails(i)
  \/ RequestFails(i)
  \/ \E t \in ResponseTexts, w \in BOOLEAN : ~Parses(t) /\ ResponseArrives(i, t, w)

\* C6: when an analysis fails at the blob read, the inference request or the
\* JSON parse of the response, the handler ends with the generic error
\* message set, result null, loading false, and the history list and the
\* persisted snapshot equal to what they were when the call was made.
C6_FailureLeavesNoTrace ==
  [][\A i \in DOMAIN calls :
       (Mounted /\ AnalysisFails(i)) =>
         /\ error' = AnalyzeFailMsg
         /\ result' = NoResult
         /\ loading' = FALSE
         /\ history' = calls[i].history
         /\ storage' = calls[i].storage0]_vars

\* C6 witness: an analysis has failed after its request was issued, nothing
\* was appended
C6_Witness ==
  /\ Mounted
  /\ error = AnalyzeFailMsg
  /\ result = NoResult
  /\ ~loading
  /\ calls = <<>>
  /\ requests = 1
  /\ appended = 0

\* C7: triggering analyze while no media is selected issues no inference
\* call, does not enter the pending state and leaves the history list and
\* the persisted snapshot unchanged; nothing but the error message (and the
\* record of the click) may change.
C7_NoMediaNoCall ==
  [][(file = NoFile /\ ClickAnalyze) =>
       /\ requests' = requests
       /\ calls' = calls /\ calls' = <<>>
       /\ ~loading'
       /\ history' = history
       /\ storage' = storage
       /\ UNCHANGED <<phase, file, previewUrl, promptText, result, mode, appended>>
       /\ UNCHANGED camVars]_vars

\* C7 witness: analyze was triggered with no media selected
C7_Witness ==
  /\ Mounted
  /\ ignoredClick
  /\ file = NoFile
  /\ ~loading
  /\ requests = 0

\* a stored value that is no history list: a text that does not parse, or
\* the text of a JSON value that is no array
CorruptValue(t) == LoadThrows(t) \/ (Parses(t) /\ t.kind # "absent" /\ ~IsArrayText(t))

\* C8: for every corrupt value under the history key, startup completes with
\* the history equal to the empty list, the error state unset, and the
\* component still running (no exception escapes).
C8_CorruptStartsEmpty ==
  [][(Startup /\ CorruptValue(storage)) =>
       /\ phase' = "running"
       /\ history' = <<>>
       /\ error' = NoError]_vars
\* streams the browser has handed out whose tracks were never stopped
ActiveStreams == {s \in 1..nextStream : stopCalls[s] = 0}

\* camera usage has ended and no camera-start request is outstanding
CameraUsageEnded ==
  /\ camPending = 0
  /\ granted = {}
  /\ mode = "upload" \/ ~isCameraOn \/ phase = "unmounted"

\* C9: once camera usage has ended (camera stopped, mode switched to upload,
\* photo captured, or component unmounted) and no camera-start request is
\* outstanding, no acquired stream is left with unreleased tracks.
C9_NoLeakedStream == CameraUsageEnded => ActiveStreams = {}

\* C10: at every moment at most one camera stream is active (acquired and not
\* yet released).
C10_AtMostOneActiveStream == Cardinality(ActiveStreams) <= 1
\* C11: starting the camera when it is already started is a no-op: while the
\* camera is on, a start request can change nothing (no getUserMedia request is
\* issued, so no new stream is acquired for it, and isCameraOn, stream and
\* error keep their values).
C11_StartWhileOnIsNoOp == (Mounted /\ isCameraOn) => ~ENABLED handleStartCamera

\* C11 witness: the camera is on in live mode, with a stream held, while the
\* session could still ask for another stream
C11_Witness ==
  /\ Mounted
  /\ mode = "live"
  /\ isCameraOn
  /\ stream # NoStream
  /\ nextStream + camPending < MaxStreams

\* C12: stopping the camera releases every acquired track exactly once:
\* track.stop() is invoked once and only once on the tracks of a stream,
\* whichever exit paths (capture, file selection, mode switch, the stream
\* cleanup effect) are reached in sequence.
C12_StoppedExactlyOnce == \A s \in 1..nextStream : stopCalls[s] <= 1
\* C13: every capture-photo request made while the camera is on ends (when the
\* toBlob callback has run) with the selected file being a file of type
\* image/jpeg whose name starts with capture-, result and error cleared, the
\* camera stopped (isCameraOn false, no stream held) and the UI mode upload.
C13_CaptureEndsInUpload ==
  [][(Mounted /\ CaptureDelivered) =>
       /\ file'.type = "image/jpeg"
       /\ Len(file'.name) > 0
       /\ file'.name[1] = "capture-"
       /\ result' = NoResult
       /\ error' = NoError
       /\ ~isCameraOn'
       /\ stream' = NoStream
       /\ mode' = "upload"]_vars

\* C14: when starting the camera fails, the camera error message is set, the
\* camera is off (isCameraOn false, no stream held), and the selected file,
\* the preview, the result, the history list and the persisted snapshot are
\* left unchanged.
C14_FailedStartLeavesCameraOff ==
  [][(Mounted /\ CameraDenied) =>
       /\ error' = CameraMsg
       /\ ~isCameraOn'
       /\ stream' = NoStream
       /\ UNCHANGED <<file, previewUrl, result, history, storage>>]_vars

\* C19: whenever the camera is active (isCameraOn true), the live preview
\* video element is attached to the acquired stream.
C19_PreviewAttached ==
  (Mounted /\ isCameraOn) => (stream # NoStream /\ videoSrc = stream)
\* the response is an object with the three fields of an AnalysisResult
WellFormed(t) == t.kind = "object" /\ ~MissingField(t)

\* C15: after a successful analysis history[0] carries the three fields of the
\* returned AnalysisResult, the MIME type of the media that was sent in that
\* call and the free-text context that was used for that call (the empty
\* string when it was blank), even if the selected media or the context text
\* was changed while the request was pending.
C15_ItemDescribesItsCall ==
  [][\A i \in DOMAIN calls, t \in ResponseTexts, w \in BOOLEAN :
       (Mounted /\ WellFormed(t) /\ ResponseArrives(i, t, w)) =>
         /\ \A k \in ResultFields : history'[1][k] = t.obj[k]
         /\ history'[1].file.type = calls[i].sent.mimeType
         /\ OwnerContext(history'[1].prompt) = calls[i].sent.context
         /\ history'[1].prompt = "" <=> calls[i].sent.context = "None"]_vars

\* C15 witness: an analysis has succeeded after the selected media and the
\* context text were changed while its request was pending (a later file
\* selection would have cleared the result)
C15_Witness ==
  /\ Mounted
  /\ result = ParsedResponse(GoodText)
  /\ history # <<>>
  /\ history[1].id = Now - 1
  /\ appended > 0
  /\ history[1].file.type # file.type
  /\ history[1].prompt # promptText
\* the handler of call i finishes: in its catch block, or after a response
\* whose text parsed
HandlerFinishes(i) ==
  \/ AnalysisFails(i)
  \/ \E t \in ResponseTexts, w \in BOOLEAN : Parses(t) /\ ResponseArrives(i, t, w)

\* C16: every pending phase ends: when the outstanding read and request of a
\* triggered analysis complete or fail and the handler finishes, loading is
\* false and the UI is in idle-with-result (result set) or idle-with-error
\* (error set); loading is never left true after the handler finishes.
C16_PendingEnds ==
  [][\A i \in DOMAIN calls :
       (Mounted /\ HandlerFinishes(i)) =>
         /\ loading' = FALSE
         /\ result' # NoResult \/ error' # NoError]_vars
\* every item of the list is still there, one position further down, unless it
\* was beyond the cap
ItemsKept ==
  \A k \in 1..Min(Len(history), HistoryCap - 1) :
    k + 1 \in DOMAIN history' /\ history'[k + 1] = history[k]

\* the handler of call i completes without reaching its catch block
AnalysisSucceeds(i) ==
  \E t \in ResponseTexts : Parses(t) /\ ResponseArrives(i, t, TRUE)

\* C18: the history list and the persisted snapshot change only in the load
\* at startup (the list only) and at the completion of a successful analysis;
\* every other operation, failed analyses included, leaves both unchanged, and
\* a change of the list keeps every existing item except those evicted beyond
\* the 10th position.
C18_HistoryChangesOnlyOnSuccess ==
  [][(history' # history \/ storage' # storage) =>
       \/ Startup /\ storage' = storage
       \/ /\ \E i \in DOMAIN calls : AnalysisSucceeds(i)
          /\ history' # history => ItemsKept]_vars

\* C20: the file reference stored in every HistoryItem made by an analysis
\* (file.dataUrl) is a data URL, a self-contained encoding of the analysed
\* media, in the history list and in the persisted snapshot alike.
C20_StoredReferenceIsDataUrl ==
  /\ \A k \in DOMAIN history :
       history[k].id > HistoryCap + 1 => history[k].file.dataUrl.scheme = "data"
  /\ IsArrayText(storage) =>
       \A k \in DOMAIN storage.arr :
         ParseItem(storage.arr[k]).id > HistoryCap + 1 =>
           ParseItem(storage.arr[k]).file.dataUrl.scheme = "data"
\* the toBlob callback runs with a blob: a live capture selects new media
CaptureSelects == CaptureDelivered /\ captures # <<>> /\ Head(captures)

\* C17: selecting new media, by file selection or by live capture, from ready,
\* idle-with-result or idle-with-error (no analysis pending) replaces the
\* selected file and its preview, sets result and error to null, and leaves
\* the history list and the persisted snapshot unchanged.
C17_SelectionResets ==
  [][(Mounted /\ ~loading) =>
       /\ \A f \in Files :
            handleFileChange(f) => file' = f /\ previewUrl' = createObjectURL(f)
       /\ CaptureSelects =>
            file' = CapturedFile /\ previewUrl' = createObjectURL(CapturedFile)
       /\ ((\E f \in Files : handleFileChange(f)) \/ CaptureSelects) =>
            /\ result' = NoResult
            /\ error' = NoError
            /\ history' = history
            /\ storage' = storage]_vars

\* C17 witness: a photo captured after an analysis of this session had
\* completed is the selected file, with result and error null and the item
\* of that analysis still first in the list
C17_Witness ==
  /\ Mounted
  /\ ~loading
  /\ appended > 0
  /\ file = CapturedFile
  /\ previewUrl = createObjectURL(CapturedFile)
  /\ history # <<>>
  /\ history[1].id = Now - 1
  /\ history[1].file.dataUrl = createObjectURL(DogJpg)
  /\ result = NoResult
  /\ error = NoError
\* C21: in every reachable state at most one of result and error is set: a
\* result is never displayed together with an error message, whatever the
\* sequence of analyses (one whose storage write fails after the result was
\* parsed included) and camera operations.
C21_ResultOrErrorNotBoth == Mounted => ~(result # NoResult /\ error # NoError)

\* C22: whenever result is non-null it was produced by an analysis of the
\* currently selected media: the response that sets a result belongs to a call
\* made for the file and preview now selected, and a step that changes the
\* selected media leaves no result displayed.
C22_ResultOfSelectedMedia ==
  [][Mounted =>
       /\ \A i \in DOMAIN calls, t \in ResponseTexts, w \in BOOLEAN :
            (ResponseArrives(i, t, w) /\ result' # NoResult) =>
              calls[i].file = file' /\ calls[i].previewUrl = previewUrl'
       /\ (file' # file \/ previewUrl' # previewUrl) => result' = NoResult]_vars
====
